---- MODULE Spec2Model ----
(***************************************************************************)
(* Model of the ring buffer of src/ring_buffer.go.                         *)
(*                                                                         *)
(* rb is the RingBuffer struct (buf, size, r, w, isFull); mu is its mutex. *)
(* Every caller is a thread with a program counter; a call is split into   *)
(* one step per write to a shared field, so the states in which the lock   *)
(* is held show the half-updated struct.                                   *)
(* Go slices are 0-based; buf is a TLA+ sequence, so buf[i] of the code is *)
(* rb.buf[i+1] here.                                                       *)
(*                                                                         *)
(* Spec      one caller, every method, capacities 1..MaxSize.              *)
(* SpecWrap  one caller, every method, capacity 4, calls of up to 3 bytes. *)
(* SpecSPSC  a producer (Write, WriteByte) and a consumer (Read, ReadByte) *)
(*           running concurrently, capacities 1..ConcMaxSize.              *)
(* SpecNew   one caller, every method, on every buffer New returns,        *)
(*           capacity 0 included.                                          *)
(* SpecConc  two callers, each running every method, capacities            *)
(*           1..ConcMaxSize.                                               *)
(* SpecConcFair  the two callers with a fair scheduler and a fair mutex,   *)
(*           capacities 1..FairMaxSize.                                    *)
(*                                                                         *)
(* pending and inOrder are the abstract queue: the accepted bytes not yet  *)
(* returned, and whether every returned byte was the oldest of them.       *)
(***************************************************************************)
EXTENDS Integers, Sequences, FiniteSets, TLC

\* ---- bounds ----
MaxSize == 3
MaxLen == 2
MaxByte == 2
ConcMaxSize == 2
ConcMaxLen == 2
FairMaxSize == 1

ByteVals == 1..MaxByte

VARIABLES
    rb,       \* the RingBuffer struct: [buf, size, r, w, isFull]
    mu,       \* the mutex: 0 when free, else the thread holding it
    pc,       \* per thread: position in the current call
    op,       \* per thread: the method being called
    p,        \* per thread: Write's source slice / WriteByte's byte (as <<c>>)
    plen,     \* per thread: len(p) at the call (source or destination length)
    n,        \* per thread: the int result
    err,      \* per thread: the error result
    out,      \* per thread: bytes handed to the caller (p[0..n) of Read, b, Bytes())
    flag,     \* per thread: the bool result
    pre,      \* ghost, per thread: struct, unread bytes and argument when the call began
    pending,  \* ghost: bytes accepted by writes and not yet returned by reads
    inOrder,  \* ghost: every byte returned so far was the oldest accepted one
    last,     \* ghost: the previous completed call when it was a Write to an empty buffer
    hist      \* ghost: the calls completed since New, while they follow a scenario of section 8

vars == <<rb, mu, pc, op, p, plen, n, err, out, flag, pre, pending, inOrder, last, hist>>
locals == <<op, p, plen, n, err, out, flag>>
ghosts == <<pending, inOrder, last, hist>>

Threads == DOMAIN pc

\* ---- errors (ring_buffer.go:13-17) ----
nil == "nil"
ErrTooManyDataToWrite == "too many data to write"
ErrIsFull == "ringbuffer is full"
ErrIsEmpty == "ringbuffer is empty"

\* ---- Go slice helpers ----
Min(a, b) == IF a < b THEN a ELSE b

\* s[lo:hi]
Slice(s, lo, hi) == SubSeq(s, lo + 1, hi)

\* dst after copy(dst[off:], src)
Copy(dst, off, src) ==
    [i \in 1..Len(dst) |->
        IF i > off /\ i <= off + Len(src) THEN src[i - off] ELSE dst[i]]

Zeros(k) == [i \in 1..k |-> 0]

\* the byte slices of length at most k over the byte values B
SeqsUpTo(B, k) == UNION {[1..l -> B] : l \in 0..k}

\* ---- New ----
New(sz) == [buf |-> Zeros(sz), size |-> sz, r |-> 0, w |-> 0, isFull |-> FALSE]

\* ---- Length, Free, IsFull, IsEmpty, Capacity (what the call returns on struct s) ----

\* mutant: the wrapped case computed like the unwrapped one
LengthNoWrap(s) ==
    IF s.w = s.r
    THEN (IF s.isFull THEN s.size ELSE 0)
    ELSE IF s.w > s.r THEN s.w - s.r
    ELSE s.r - s.w

Length(s) ==
    IF s.w = s.r
    THEN (IF s.isFull THEN s.size ELSE 0)
    ELSE IF s.w > s.r THEN s.w - s.r
    ELSE s.size - s.r + s.w

Capacity(s) == s.size


\* mutant: the unwrapped case returns the occupied count
FreeAsLength(s) ==
    IF s.w = s.r
    THEN (IF s.isFull THEN 0 ELSE s.size)
    ELSE IF s.w < s.r THEN s.r - s.w
    ELSE s.w - s.r

Free(s) ==
    IF s.w = s.r
    THEN (IF s.isFull THEN 0 ELSE s.size)
    ELSE IF s.w < s.r THEN s.r - s.w
    ELSE s.size - s.w + s.r

IsFull(s) == s.isFull


\* mutant: the flag is not consulted
IsEmptyNoFlag(s) == s.w = s.r

IsEmpty(s) == ~s.isFull /\ s.w = s.r

\* ---- Bytes ----

\* mutant: the segment at the start of storage is never appended
BytesNoSplit(s) ==
    IF s.w = s.r
    THEN (IF s.isFull THEN Copy(Zeros(s.size), 0, Slice(s.buf, s.r, s.size)) ELSE <<>>)
    ELSE IF s.w > s.r
    THEN Copy(Zeros(s.w - s.r), 0, Slice(s.buf, s.r, s.w))
    ELSE Copy(Zeros(s.size - s.r + s.w), 0, Slice(s.buf, s.r, s.size))

Bytes(s) ==
    IF s.w = s.r
    THEN (IF s.isFull
          THEN Copy(Copy(Zeros(s.size), 0, Slice(s.buf, s.r, s.size)),
                    s.size - s.r, Slice(s.buf, 0, s.w))
          ELSE <<>>)
    ELSE IF s.w > s.r
    THEN Copy(Zeros(s.w - s.r), 0, Slice(s.buf, s.r, s.w))
    ELSE LET cnt == s.size - s.r + s.w
         IN  IF s.r + cnt < s.size
             THEN Copy(Zeros(cnt), 0, Slice(s.buf, s.r, s.r + cnt))
             ELSE LET c1 == s.size - s.r
                      c2 == cnt - c1
                  IN  Copy(Copy(Zeros(cnt), 0, Slice(s.buf, s.r, s.size)),
                           c1, Slice(s.buf, 0, c2))

\* ---- Read: the emptiness test, the count and the bytes copied into p ----
ReadEmpty(s) == s.w = s.r /\ ~s.isFull

ReadCount(s, l) ==
    IF s.w > s.r
    THEN Min(s.w - s.r, l)
    ELSE Min(s.size - s.r + s.w, l)


\* mutant: one contiguous copy, the part past the end of storage is not copied
ReadDataNoSplit(s, k) ==
    Copy(Zeros(k), 0, Slice(s.buf, s.r, Min(s.r + k, s.size)))

\* p[0..k) after the copy of k bytes
ReadData(s, k) ==
    IF s.w > s.r
    THEN Slice(s.buf, s.r, s.r + k)
    ELSE IF s.r + k <= s.size
    THEN Slice(s.buf, s.r, s.r + k)
    ELSE LET c1 == s.size - s.r
             c2 == k - c1
         IN  Copy(Copy(Zeros(k), 0, Slice(s.buf, s.r, s.size)), c1, Slice(s.buf, 0, c2))

ReadAdvanced(s, k) == (s.r + k) % s.size

\* ---- Write: free space, the truncated source, the copy, the cursor ----

\* mutant: the distance to the end of storage only
WriteAvailToEnd(s) ==
    IF s.w >= s.r THEN s.size - s.w ELSE s.r - s.w

WriteAvail(s) ==
    IF s.w >= s.r THEN s.size - s.w + s.r ELSE s.r - s.w


\* mutant: keeps the last avail bytes of the source
WriteTruncateTail(src, avail) ==
    IF Len(src) > avail THEN Slice(src, Len(src) - avail, Len(src)) ELSE src

\* p after "if len(p) > avail { p = p[:avail] }"
WriteTruncate(src, avail) ==
    IF Len(src) > avail THEN Slice(src, 0, avail) ELSE src


\* mutant: one contiguous copy, the part past the end of storage is dropped
WriteCopiedNoSplit(s, src) == Copy(s.buf, s.w, src)

\* buf after the copy of src (already truncated)
WriteCopied(s, src) ==
    IF s.w >= s.r
    THEN LET c1 == s.size - s.w
         IN  IF c1 >= Len(src)
             THEN Copy(s.buf, s.w, src)
             ELSE Copy(Copy(s.buf, s.w, Slice(src, 0, c1)), 0, Slice(src, c1, Len(src)))
    ELSE Copy(s.buf, s.w, src)

\* w after "r.w += n" / "r.w = c2", before the wrap to 0
WriteAdvanced(s, k) ==
    IF s.w >= s.r
    THEN LET c1 == s.size - s.w
         IN  IF c1 >= k THEN s.w + k ELSE k - c1
    ELSE s.w + k


\* mutant: the write cursor is never wrapped
WrapWNever(s) == s.w

\* "if r.w == r.size { r.w = 0 }"
WrapW(s) == IF s.w = s.size THEN 0 ELSE s.w


\* mutant: the flag is never set
FullAfterNever(s) == s.isFull

\* "if r.w == r.r { r.isFull = true }"
FullAfter(s) == IF s.w = s.r THEN TRUE ELSE s.isFull

\* ---- WriteByte / ReadByte guards ----

\* mutant: a full buffer is not recognised
WriteByteFullNever(s) == FALSE

\* "if r.w == r.r && r.isFull"
WriteByteFull(s) == s.w = s.r /\ s.isFull


\* mutant: coinciding cursors always read as empty
ReadByteEmptyNoFlag(s) == s.w = s.r

ReadByteEmpty(s) == s.w = s.r /\ ~s.isFull


\* mutant: the read cursor is never wrapped
WrapRNever(s) == s.r

\* "if r.r == r.size { r.r = 0 }"
WrapR(s) == IF s.r = s.size THEN 0 ELSE s.r

\* ---- each state-changing method run from Lock to Unlock on struct s ----
\* the result: the struct it leaves, and n, err and the bytes handed to the caller
Outcome(s, k, e, d) == [rb |-> s, n |-> k, err |-> e, out |-> d]

SeqRead(s, l) ==
    IF l = 0 THEN Outcome(s, 0, nil, <<>>)
    ELSE IF ReadEmpty(s) THEN Outcome(s, 0, ErrIsEmpty, <<>>)
    ELSE LET k == ReadCount(s, l)
             moved == [s EXCEPT !.r = ReadAdvanced(s, k)]
         IN  IF s.w > s.r
             THEN Outcome(moved, k, nil, ReadData(s, k))
             ELSE Outcome([moved EXCEPT !.isFull = FALSE], k, nil, ReadData(s, k))

SeqReadByte(s) ==
    IF ReadByteEmpty(s) THEN Outcome(s, 0, ErrIsEmpty, <<>>)
    ELSE LET inc == [s EXCEPT !.r = s.r + 1]
             wrapped == [inc EXCEPT !.r = WrapR(inc)]
         IN  Outcome([wrapped EXCEPT !.isFull = FALSE], 0, nil, <<s.buf[s.r + 1]>>)

SeqWrite(s, src) ==
    IF Len(src) = 0 THEN Outcome(s, 0, nil, <<>>)
    ELSE IF s.isFull THEN Outcome(s, 0, ErrIsFull, <<>>)
    ELSE LET avail == WriteAvail(s)
             kept == WriteTruncate(src, avail)
             copied == [s EXCEPT !.buf = WriteCopied(s, kept)]
             moved == [copied EXCEPT !.w = WriteAdvanced(copied, Len(kept))]
             wrapped == [moved EXCEPT !.w = WrapW(moved)]
         IN  Outcome([wrapped EXCEPT !.isFull = FullAfter(wrapped)], Len(kept),
                     IF Len(src) > avail THEN ErrTooManyDataToWrite ELSE nil, <<>>)

SeqWriteByte(s, c) ==
    IF WriteByteFull(s) THEN Outcome(s, 0, ErrIsFull, <<>>)
    ELSE LET stored == [s EXCEPT !.buf = Copy(s.buf, s.w, <<c>>)]
             inc == [stored EXCEPT !.w = stored.w + 1]
             wrapped == [inc EXCEPT !.w = WrapW(inc)]
         IN  Outcome([wrapped EXCEPT !.isFull = FullAfter(wrapped)], 0, nil, <<>>)

SeqReset(s) == Outcome([s EXCEPT !.r = 0, !.w = 0, !.isFull = FALSE], 0, nil, <<>>)

\* ---- ghost bookkeeping ----
IsPrefix(a, b) == Len(a) <= Len(b) /\ SubSeq(b, 1, Len(a)) = a

Drop(s, k) == SubSeq(s, k + 1, Len(s))

Snapshot(src) == [rb |-> rb, pending |-> pending, p |-> src]
NoPre == [rb |-> New(0), pending |-> <<>>, p |-> <<>>]
Waiting(src) == [NoPre EXCEPT !.p = src]

Call(o, l) == [op |-> o, plen |-> l]
NoCall == [op |-> "none", src |-> <<>>]
\* the value of last in the specifications that keep no call history
Untracked == [op |-> "untracked", src |-> <<>>]

\* the scenarios of the spec's section 8, as sequences of state-changing calls
WrapScenario == <<Call("Write", 3), Call("Read", 2), Call("Write", 3)>>
FullEmptyScenarios ==
    {<<Call("Write", 2), Call(a, 1), Call(b, 1)>> : a \in {"Read", "ReadByte"}, b \in {"Read", "ReadByte"}}
Scenarios == {WrapScenario} \cup FullEmptyScenarios
Off == <<[op |-> "off", plen |-> 0, data |-> <<>>, n |-> 0, err |-> nil]>>
Shape(h) == [i \in 1..Len(h) |-> Call(h[i].op, h[i].plen)]
Track(h, c) ==
    IF h # Off /\ \E s \in Scenarios : IsPrefix(Shape(Append(h, c)), s)
    THEN Append(h, c)
    ELSE Off

Mutating == {"Read", "ReadByte", "Write", "WriteByte", "Reset"}

\* bytes d handed to a reader: they must be the oldest accepted ones
Returned(d) ==
    /\ inOrder' = (inOrder /\ IsPrefix(d, pending))
    /\ pending' = Drop(pending, Len(d))

\* bytes d accepted from a writer
Accepted(d) ==
    /\ pending' = pending \o d
    /\ UNCHANGED inOrder

\* ---- Init ----
InitThreads(T, sizes, tracked) ==
    /\ rb \in {New(sz) : sz \in sizes}
    /\ mu = 0
    /\ pc = [t \in T |-> "idle"]
    /\ op = [t \in T |-> "none"]
    /\ p = [t \in T |-> <<>>]
    /\ plen = [t \in T |-> 0]
    /\ n = [t \in T |-> 0]
    /\ err = [t \in T |-> nil]
    /\ out = [t \in T |-> <<>>]
    /\ flag = [t \in T |-> FALSE]
    /\ pre = [t \in T |-> NoPre]
    /\ pending = <<>>
    /\ inOrder = TRUE
    /\ last = IF tracked THEN NoCall ELSE Untracked
    /\ hist = IF tracked THEN <<>> ELSE Off

Init == InitThreads({1}, 1..MaxSize, TRUE)

\* ---- a call begins ----
Begin(t, o, src, l, next) ==
    /\ pc[t] = "idle"
    /\ pc' = [pc EXCEPT ![t] = next]
    /\ op' = [op EXCEPT ![t] = o]
    /\ p' = [p EXCEPT ![t] = src]
    /\ plen' = [plen EXCEPT ![t] = l]
    /\ pre' = [pre EXCEPT ![t] = IF next = "ret0" THEN Snapshot(src) ELSE Waiting(src)]
    /\ UNCHANGED <<rb, mu, err, out, flag, ghosts>>

\* mutant: a zero-length destination is treated like any other
CallReadNoEarly(t, L) ==
    \E l \in 0..L :
        /\ Begin(t, "Read", <<>>, l, "lock")
        /\ UNCHANGED n

\* Read, lines 40-43: a zero-length destination returns before the lock
CallRead(t, L) ==
    \E l \in 0..L :
        /\ Begin(t, "Read", <<>>, l, IF l = 0 THEN "ret0" ELSE "lock")
        /\ UNCHANGED n

\* Write, lines 105-108: a zero-length source returns before the lock
CallWrite(t, L, B) ==
    \E src \in SeqsUpTo(B, L) :
        /\ Begin(t, "Write", src, Len(src), IF Len(src) = 0 THEN "ret0" ELSE "lock")
        /\ UNCHANGED n

CallReadByte(t) == Begin(t, "ReadByte", <<>>, 1, "lock") /\ UNCHANGED n

CallWriteByte(t, B) ==
    \E c \in B : Begin(t, "WriteByte", <<c>>, 1, "lock") /\ UNCHANGED n

CallLength(t) == Begin(t, "Length", <<>>, 0, "lock") /\ UNCHANGED n

CallFree(t) == Begin(t, "Free", <<>>, 0, "lock") /\ UNCHANGED n

CallIsFull(t) == Begin(t, "IsFull", <<>>, 0, "lock") /\ UNCHANGED n

CallIsEmpty(t) == Begin(t, "IsEmpty", <<>>, 0, "lock") /\ UNCHANGED n

CallBytes(t) == Begin(t, "Bytes", <<>>, 0, "lock") /\ UNCHANGED n

CallReset(t) == Begin(t, "Reset", <<>>, 0, "lock") /\ UNCHANGED n

\* Capacity, lines 211-213: reads size without the lock
CallCapacity(t) ==
    /\ Begin(t, "Capacity", <<>>, 0, "ret0")
    /\ n' = [n EXCEPT ![t] = Capacity(rb)]

\* mutant: the lock excludes nobody
FreeAlways(m) == TRUE

\* the mutex m can be taken
IsFree(m) == m = 0

\* r.mu.Lock()
Lock(t) ==
    /\ pc[t] = "lock"
    /\ IsFree(mu)
    /\ mu' = t
    /\ pc' = [pc EXCEPT ![t] = op[t]]
    /\ pre' = [pre EXCEPT ![t] = Snapshot(pre[t].p)]
    /\ UNCHANGED <<rb, locals, ghosts>>

\* ghost: the completed call of thread t enters last and hist
Record(t) ==
    /\ last' = IF last = Untracked THEN last
               ELSE IF op[t] = "Write" /\ plen[t] > 0 /\ pre[t].pending = <<>>
               THEN [op |-> "Write", src |-> pre[t].p]
               ELSE NoCall
    /\ hist' = IF op[t] \in Mutating
               THEN Track(hist, [op |-> op[t], plen |-> plen[t],
                                 data |-> IF op[t] \in {"Write", "WriteByte"} THEN pre[t].p ELSE out[t],
                                 n |-> n[t], err |-> err[t]])
               ELSE hist

\* r.mu.Unlock(), explicit or deferred: the call's effect is complete
Unlock(t) ==
    /\ pc[t] = "unlock"
    /\ mu = t
    /\ mu' = 0
    /\ pc' = [pc EXCEPT ![t] = "ret"]
    /\ Record(t)
    /\ pre' = [pre EXCEPT ![t] = NoPre]
    /\ UNCHANGED <<rb, locals, pending, inOrder>>

Forget(t) ==
    /\ pc' = [pc EXCEPT ![t] = "idle"]
    /\ op' = [op EXCEPT ![t] = "none"]
    /\ p' = [p EXCEPT ![t] = <<>>]
    /\ plen' = [plen EXCEPT ![t] = 0]
    /\ n' = [n EXCEPT ![t] = 0]
    /\ err' = [err EXCEPT ![t] = nil]
    /\ out' = [out EXCEPT ![t] = <<>>]
    /\ flag' = [flag EXCEPT ![t] = FALSE]

\* the call returns to its caller after the unlock
Return(t) ==
    /\ pc[t] = "ret"
    /\ Forget(t)
    /\ UNCHANGED <<rb, mu, pre, ghosts>>

\* the call returns without having taken the lock (lines 41-43, 106-108, 211-213)
ReturnEarly(t) ==
    /\ pc[t] = "ret0"
    /\ Record(t)
    /\ Forget(t)
    /\ pre' = [pre EXCEPT ![t] = NoPre]
    /\ UNCHANGED <<rb, mu, pending, inOrder>>

Goto(t, next) == pc' = [pc EXCEPT ![t] = next]

\* a run-time panic inside the critical section of Read, ReadByte or WriteByte: these
\* methods unlock explicitly, not by defer, so the call ends with the lock still held
Panic(t) ==
    /\ Goto(t, "panic")
    /\ UNCHANGED <<rb, mu, locals, pre, ghosts>>

\* ---- Read, lines 45-81 ----
\* what Read leaves in p[0..n) on struct s for a destination of length l
ReadOut(s, l) ==
    IF l = 0 \/ ReadEmpty(s) THEN <<>> ELSE ReadData(s, ReadCount(s, l))

\* mutant: the ErrIsEmpty path returns without unlocking
ReadCopyKeepsLock(t) ==
    /\ pc[t] = "Read"
    /\ IF ReadEmpty(rb)
       THEN /\ err' = [err EXCEPT ![t] = ErrIsEmpty]
            /\ Goto(t, "ret")
            /\ UNCHANGED <<n, out, pending, inOrder>>
       ELSE /\ n' = [n EXCEPT ![t] = ReadCount(rb, plen[t])]
            /\ out' = [out EXCEPT ![t] = ReadOut(rb, plen[t])]
            /\ Returned(ReadOut(rb, plen[t]))
            /\ Goto(t, IF rb.w > rb.r THEN "Read_adv" ELSE "Read_adv2")
            /\ UNCHANGED err
    /\ UNCHANGED <<rb, mu, op, p, plen, flag, pre, last, hist>>

\* lines 47-57 and 63-75: the emptiness test, n and the copy into p
ReadCopy(t) ==
    /\ pc[t] = "Read"
    /\ IF ReadEmpty(rb)
       THEN /\ err' = [err EXCEPT ![t] = ErrIsEmpty]
            /\ Goto(t, "unlock")
            /\ UNCHANGED <<n, out, pending, inOrder>>
       ELSE /\ n' = [n EXCEPT ![t] = ReadCount(rb, plen[t])]
            /\ out' = [out EXCEPT ![t] = ReadOut(rb, plen[t])]
            /\ Returned(ReadOut(rb, plen[t]))
            /\ Goto(t, IF rb.w > rb.r THEN "Read_adv" ELSE "Read_adv2")
            /\ UNCHANGED err
    /\ UNCHANGED <<rb, mu, op, p, plen, flag, pre, last, hist>>

\* line 58 (then unlock and return) and line 76; "% r.size" panics when size is 0
ReadAdvance(t) ==
    /\ pc[t] \in {"Read_adv", "Read_adv2"}
    /\ IF rb.size = 0
       THEN Panic(t)
       ELSE /\ rb' = [rb EXCEPT !.r = ReadAdvanced(rb, n[t])]
            /\ Goto(t, IF pc[t] = "Read_adv" THEN "unlock" ELSE "Read_clear")
            /\ UNCHANGED <<mu, locals, pre, ghosts>>

\* line 78
ReadClear(t) ==
    /\ pc[t] = "Read_clear"
    /\ rb' = [rb EXCEPT !.isFull = FALSE]
    /\ Goto(t, "unlock")
    /\ UNCHANGED <<mu, locals, pre, ghosts>>

\* ---- ReadByte, lines 84-99 ----
\* mutant: a ReadByte that waits under the lock until a byte is there
ReadByteLoadWaits(t) ==
    /\ pc[t] = "ReadByte"
    /\ ~ReadByteEmpty(rb)
    /\ out' = [out EXCEPT ![t] = <<rb.buf[rb.r + 1]>>]
    /\ Returned(<<rb.buf[rb.r + 1]>>)
    /\ Goto(t, "ReadByte_inc")
    /\ UNCHANGED <<rb, mu, op, p, plen, n, err, flag, pre, last, hist>>

\* lines 86-90; "r.buf[r.r]" panics when r is not an index of buf
ReadByteLoad(t) ==
    /\ pc[t] = "ReadByte"
    /\ IF ReadByteEmpty(rb)
       THEN /\ err' = [err EXCEPT ![t] = ErrIsEmpty]
            /\ Goto(t, "unlock")
            /\ UNCHANGED <<rb, mu, op, p, plen, n, out, flag, pre, ghosts>>
       ELSE IF rb.r >= Len(rb.buf)
       THEN Panic(t)
       ELSE /\ out' = [out EXCEPT ![t] = <<rb.buf[rb.r + 1]>>]
            /\ Returned(<<rb.buf[rb.r + 1]>>)
            /\ Goto(t, "ReadByte_inc")
            /\ UNCHANGED <<rb, mu, op, p, plen, n, err, flag, pre, last, hist>>

\* line 91
ReadByteInc(t) ==
    /\ pc[t] = "ReadByte_inc"
    /\ rb' = [rb EXCEPT !.r = rb.r + 1]
    /\ Goto(t, "ReadByte_wrap")
    /\ UNCHANGED <<mu, locals, pre, ghosts>>

\* lines 92-94
ReadByteWrap(t) ==
    /\ pc[t] = "ReadByte_wrap"
    /\ rb' = [rb EXCEPT !.r = WrapR(rb)]
    /\ Goto(t, "ReadByte_clear")
    /\ UNCHANGED <<mu, locals, pre, ghosts>>

\* line 96
ReadByteClear(t) ==
    /\ pc[t] = "ReadByte_clear"
    /\ rb' = [rb EXCEPT !.isFull = FALSE]
    /\ Goto(t, "unlock")
    /\ UNCHANGED <<mu, locals, pre, ghosts>>

\* ---- Write, lines 109-166 ----
\* lines 110-128 and the copies of lines 137, 143-145, 150
WriteCopy(t) ==
    /\ pc[t] = "Write"
    /\ IF rb.isFull
       THEN /\ err' = [err EXCEPT ![t] = ErrIsFull]
            /\ Goto(t, "unlock")
            /\ UNCHANGED <<rb, p, n, pending, inOrder>>
       ELSE LET avail == WriteAvail(rb)
                src == WriteTruncate(p[t], avail)
            IN  /\ err' = [err EXCEPT ![t] =
                             IF Len(p[t]) > avail THEN ErrTooManyDataToWrite ELSE nil]
                /\ p' = [p EXCEPT ![t] = src]
                /\ n' = [n EXCEPT ![t] = Len(src)]
                /\ rb' = [rb EXCEPT !.buf = WriteCopied(rb, src)]
                /\ Accepted(src)
                /\ Goto(t, "Write_adv")
    /\ UNCHANGED <<mu, op, plen, out, flag, pre, last, hist>>

\* mutant: the lock is handed back before the write cursor is advanced
WriteAdvanceUnlocked(t) ==
    /\ pc[t] = "Write_adv"
    /\ rb' = [rb EXCEPT !.w = WriteAdvanced(rb, n[t])]
    /\ mu' = 0
    /\ Goto(t, "ret")
    /\ UNCHANGED <<locals, pre, ghosts>>

\* lines 138, 146, 151
WriteAdvance(t) ==
    /\ pc[t] = "Write_adv"
    /\ rb' = [rb EXCEPT !.w = WriteAdvanced(rb, n[t])]
    /\ Goto(t, "Write_wrap")
    /\ UNCHANGED <<mu, locals, pre, ghosts>>

\* lines 155-157
WriteWrap(t) ==
    /\ pc[t] = "Write_wrap"
    /\ rb' = [rb EXCEPT !.w = WrapW(rb)]
    /\ Goto(t, "Write_full")
    /\ UNCHANGED <<mu, locals, pre, ghosts>>

\* lines 160-162
WriteFull(t) ==
    /\ pc[t] = "Write_full"
    /\ rb' = [rb EXCEPT !.isFull = FullAfter(rb)]
    /\ Goto(t, "unlock")
    /\ UNCHANGED <<mu, locals, pre, ghosts>>

\* ---- WriteByte, lines 171-189 ----
\* lines 173-177; "r.buf[r.w] = c" panics when w is not an index of buf
WriteByteStore(t) ==
    /\ pc[t] = "WriteByte"
    /\ IF WriteByteFull(rb)
       THEN /\ err' = [err EXCEPT ![t] = ErrIsFull]
            /\ Goto(t, "unlock")
            /\ UNCHANGED <<rb, mu, op, p, plen, n, out, flag, pre, ghosts>>
       ELSE IF rb.w >= Len(rb.buf)
       THEN Panic(t)
       ELSE /\ rb' = [rb EXCEPT !.buf = Copy(rb.buf, rb.w, p[t])]
            /\ Accepted(p[t])
            /\ Goto(t, "WriteByte_inc")
            /\ UNCHANGED <<mu, op, p, plen, n, err, out, flag, pre, last, hist>>

\* line 178
WriteByteInc(t) ==
    /\ pc[t] = "WriteByte_inc"
    /\ rb' = [rb EXCEPT !.w = rb.w + 1]
    /\ Goto(t, "WriteByte_wrap")
    /\ UNCHANGED <<mu, locals, pre, ghosts>>

\* lines 180-182
WriteByteWrap(t) ==
    /\ pc[t] = "WriteByte_wrap"
    /\ rb' = [rb EXCEPT !.w = WrapW(rb)]
    /\ Goto(t, "WriteByte_full")
    /\ UNCHANGED <<mu, locals, pre, ghosts>>

\* lines 183-185
WriteByteSetFull(t) ==
    /\ pc[t] = "WriteByte_full"
    /\ rb' = [rb EXCEPT !.isFull = FullAfter(rb)]
    /\ Goto(t, "unlock")
    /\ UNCHANGED <<mu, locals, pre, ghosts>>

\* ---- the queries, each under the lock ----
LengthBody(t) ==
    /\ pc[t] = "Length"
    /\ n' = [n EXCEPT ![t] = Length(rb)]
    /\ Goto(t, "unlock")
    /\ UNCHANGED <<rb, mu, op, p, plen, err, out, flag, pre, ghosts>>

FreeBody(t) ==
    /\ pc[t] = "Free"
    /\ n' = [n EXCEPT ![t] = Free(rb)]
    /\ Goto(t, "unlock")
    /\ UNCHANGED <<rb, mu, op, p, plen, err, out, flag, pre, ghosts>>

IsFullBody(t) ==
    /\ pc[t] = "IsFull"
    /\ flag' = [flag EXCEPT ![t] = IsFull(rb)]
    /\ Goto(t, "unlock")
    /\ UNCHANGED <<rb, mu, op, p, plen, n, err, out, pre, ghosts>>

IsEmptyBody(t) ==
    /\ pc[t] = "IsEmpty"
    /\ flag' = [flag EXCEPT ![t] = IsEmpty(rb)]
    /\ Goto(t, "unlock")
    /\ UNCHANGED <<rb, mu, op, p, plen, n, err, out, pre, ghosts>>

\* mutant: a peek that consumes what it returns
BytesBodyDrains(t) ==
    /\ pc[t] = "Bytes"
    /\ out' = [out EXCEPT ![t] = Bytes(rb)]
    /\ rb' = [rb EXCEPT !.r = rb.w, !.isFull = FALSE]
    /\ Goto(t, "unlock")
    /\ UNCHANGED <<mu, op, p, plen, n, err, flag, pre, ghosts>>

\* lines 246-280
BytesBody(t) ==
    /\ pc[t] = "Bytes"
    /\ out' = [out EXCEPT ![t] = Bytes(rb)]
    /\ Goto(t, "unlock")
    /\ UNCHANGED <<rb, mu, op, p, plen, n, err, flag, pre, ghosts>>

\* ---- Reset, lines 301-308 ----
ResetR(t) ==
    /\ pc[t] = "Reset"
    /\ rb' = [rb EXCEPT !.r = 0]
    /\ Goto(t, "Reset_w")
    /\ UNCHANGED <<mu, locals, pre, ghosts>>

ResetW(t) ==
    /\ pc[t] = "Reset_w"
    /\ rb' = [rb EXCEPT !.w = 0]
    /\ Goto(t, "Reset_full")
    /\ UNCHANGED <<mu, locals, pre, ghosts>>

\* mutant: the flag survives the reset
ResetFullKeeps(t) ==
    /\ pc[t] = "Reset_full"
    /\ pending' = <<>>
    /\ Goto(t, "unlock")
    /\ UNCHANGED <<rb, mu, locals, pre, inOrder, last, hist>>

\* line 307; the buffered bytes are discarded
ResetFull(t) ==
    /\ pc[t] = "Reset_full"
    /\ rb' = [rb EXCEPT !.isFull = FALSE]
    /\ pending' = <<>>
    /\ Goto(t, "unlock")
    /\ UNCHANGED <<mu, locals, pre, inOrder, last, hist>>

\* ---- the specification of a single caller (thread 1) ----
\* every step of every method, for calls of up to L bytes with values in B
Step(t, L, B) ==
    \/ CallRead(t, L) \/ ReadCopy(t) \/ ReadAdvance(t) \/ ReadClear(t)
    \/ CallReadByte(t) \/ ReadByteLoad(t) \/ ReadByteInc(t) \/ ReadByteWrap(t) \/ ReadByteClear(t)
    \/ CallWrite(t, L, B) \/ WriteCopy(t) \/ WriteAdvance(t) \/ WriteWrap(t) \/ WriteFull(t)
    \/ CallWriteByte(t, B) \/ WriteByteStore(t) \/ WriteByteInc(t) \/ WriteByteWrap(t) \/ WriteByteSetFull(t)
    \/ CallLength(t) \/ LengthBody(t)
    \/ CallFree(t) \/ FreeBody(t)
    \/ CallCapacity(t)
    \/ CallIsFull(t) \/ IsFullBody(t)
    \/ CallIsEmpty(t) \/ IsEmptyBody(t)
    \/ CallBytes(t) \/ BytesBody(t)
    \/ CallReset(t) \/ ResetR(t) \/ ResetW(t) \/ ResetFull(t)
    \/ Lock(t) \/ Unlock(t) \/ Return(t) \/ ReturnEarly(t)

Next == Step(1, MaxLen, ByteVals)

Spec == Init /\ [][Next]_vars

\* ---- a single caller on whatever New returns ----
\* New (lines 30-35) checks nothing: make([]byte, size) panics for a negative size, so
\* that call returns no buffer, and any size >= 0, 0 included, yields a buffer
NewSizes == {sz \in -1..MaxSize : sz >= 0}

InitNew == InitThreads({1}, NewSizes, TRUE)

NextNew == Step(1, MaxLen, ByteVals)

SpecNew == InitNew /\ [][NextNew]_vars

\* ---- the wrap-around scenario's buffer: capacity 4, calls of up to 3 bytes ----
InitWrap == InitThreads({1}, {4}, TRUE)

NextWrap == Step(1, 3, ByteVals)

SpecWrap == InitWrap /\ [][NextWrap]_vars

\* ---- one producer (thread 1) and one consumer (thread 2), no Reset ----
Producer(t) ==
    \/ CallWrite(t, ConcMaxLen, ByteVals) \/ WriteCopy(t) \/ WriteAdvance(t) \/ WriteWrap(t) \/ WriteFull(t)
    \/ CallWriteByte(t, ByteVals) \/ WriteByteStore(t) \/ WriteByteInc(t) \/ WriteByteWrap(t) \/ WriteByteSetFull(t)
    \/ Lock(t) \/ Unlock(t) \/ Return(t) \/ ReturnEarly(t)

Consumer(t) ==
    \/ CallRead(t, ConcMaxLen) \/ ReadCopy(t) \/ ReadAdvance(t) \/ ReadClear(t)
    \/ CallReadByte(t) \/ ReadByteLoad(t) \/ ReadByteInc(t) \/ ReadByteWrap(t) \/ ReadByteClear(t)
    \/ Lock(t) \/ Unlock(t) \/ Return(t) \/ ReturnEarly(t)

InitSPSC == InitThreads({1, 2}, 1..ConcMaxSize, FALSE)

NextSPSC == Producer(1) \/ Consumer(2)

SpecSPSC == InitSPSC /\ [][NextSPSC]_vars

\* ---- two callers (threads 1 and 2), each running every method ----
\* the value the concurrent callers write; the storage starts as zeros
ConcBytes == {1}

InitConc == InitThreads({1, 2}, 1..ConcMaxSize, FALSE)

NextConc == Step(1, ConcMaxLen, ConcBytes) \/ Step(2, ConcMaxLen, ConcBytes)

SpecConc == InitConc /\ [][NextConc]_vars

\* ---- the two callers under a fair scheduler and a fair mutex ----
\* what a started call of thread t does once it has the lock, up to its return
Run(t) ==
    \/ ReadCopy(t) \/ ReadAdvance(t) \/ ReadClear(t)
    \/ ReadByteLoad(t) \/ ReadByteInc(t) \/ ReadByteWrap(t) \/ ReadByteClear(t)
    \/ WriteCopy(t) \/ WriteAdvance(t) \/ WriteWrap(t) \/ WriteFull(t)
    \/ WriteByteStore(t) \/ WriteByteInc(t) \/ WriteByteWrap(t) \/ WriteByteSetFull(t)
    \/ LengthBody(t) \/ FreeBody(t) \/ IsFullBody(t) \/ IsEmptyBody(t) \/ BytesBody(t)
    \/ ResetR(t) \/ ResetW(t) \/ ResetFull(t)
    \/ Unlock(t) \/ Return(t) \/ ReturnEarly(t)

\* a running goroutine keeps being scheduled (weak fairness of its steps) and a
\* goroutine waiting in Lock gets the mutex if it is free again and again (sync.Mutex
\* hands the lock to a starving waiter); nobody is obliged to start a call
InitFair == InitThreads({1, 2}, 1..FairMaxSize, FALSE)

SpecConcFair ==
    /\ InitFair
    /\ [][NextConc]_vars
    /\ WF_vars(Run(1)) /\ WF_vars(Run(2))
    /\ SF_vars(Lock(1)) /\ SF_vars(Lock(2))

\* ---- helpers of the properties ----
Take(s, k) == SubSeq(s, 1, k)

\* the k bytes stored from the read cursor on, wrapping at the end of storage
Unread(s, k) == [i \in 1..k |-> s.buf[((s.r + i - 1) % s.size) + 1]]

\* thread t has finished the work of a call of method o and not yet handed back the lock
\* (or is returning without having taken it)
Done(t, o) == pc[t] \in {"unlock", "ret0"} /\ op[t] = o

Quiet == \A t \in Threads : pc[t] = "idle"

\* ---- C1 ----
\* C1: a Read with a non-empty destination on a buffer holding unread bytes returns
\* n = min(occupied, len(p)) and no error, p[0..n) is the n oldest unread bytes in the
\* order they were accepted, the read cursor has advanced by n modulo the capacity
\* and is_full is false.
C1_ReadOldest ==
    \A t \in Threads :
        (Done(t, "Read") /\ plen[t] > 0 /\ pre[t].pending # <<>>) =>
            /\ n[t] = Min(Len(pre[t].pending), plen[t])
            /\ err[t] = nil
            /\ out[t] = Take(pre[t].pending, n[t])
            /\ rb.r = (pre[t].rb.r + n[t]) % rb.size
            /\ ~rb.isFull

\* a Read of two different bytes whose range crosses the end of storage
C1_Witness ==
    \E t \in Threads :
        /\ Done(t, "Read")
        /\ n[t] = 2
        /\ pre[t].rb.r + n[t] > rb.size
        /\ out[t][1] # out[t][2]

\* ---- C2 ----
\* C2: a Write with a non-empty source on a buffer that is not full, avail being the
\* free space before the call: if len(p) > avail it accepts exactly the first avail
\* bytes, returns (avail, ErrTooManyDataToWrite) and leaves the buffer full; otherwise
\* it accepts all of p and returns (len(p), nil). The error is non-nil exactly when
\* n < len(p).
C2_WritePartial ==
    \A t \in Threads :
        (Done(t, "Write") /\ plen[t] > 0 /\ ~pre[t].rb.isFull) =>
            LET avail == rb.size - Len(pre[t].pending)
            IN  /\ plen[t] > avail =>
                    /\ n[t] = avail
                    /\ err[t] = ErrTooManyDataToWrite
                    /\ pending = pre[t].pending \o Take(pre[t].p, avail)
                    /\ IsFull(rb)
                /\ plen[t] <= avail =>
                    /\ n[t] = plen[t]
                    /\ err[t] = nil
                    /\ pending = pre[t].pending \o pre[t].p
                /\ Unread(rb, Len(pending)) = pending
                /\ (err[t] # nil) <=> (n[t] < plen[t])

\* a partial Write that accepts a byte and drops a different one
C2_Witness ==
    \E t \in Threads :
        /\ Done(t, "Write")
        /\ err[t] = ErrTooManyDataToWrite
        /\ n[t] = 1
        /\ plen[t] = 2
        /\ pre[t].p[1] # pre[t].p[2]
        /\ pre[t].rb.w < pre[t].rb.r

C4_Fifo ==
    /\ inOrder
    /\ Len(pending) <= rb.size
    /\ mu = 0 => Unread(rb, Len(pending)) = pending

\* the consumer has been handed two different bytes that wrapped past the end of
\* storage while the producer waits for the lock with a call of its own
C4_Witness ==
    /\ Done(2, "Read")
    /\ Len(out[2]) = 2
    /\ out[2][1] # out[2][2]
    /\ pre[2].rb.r + 2 > rb.size
    /\ pc[1] = "lock"

\* ---- C5 ----
\* C5: whenever no call is inside its critical section, Length() is the number of
\* bytes accepted and not yet returned since New or the last Reset, Free() is the
\* capacity minus that number, and Length() + Free() = Capacity(); the Length and
\* Free calls return these values.
C5_LengthFree ==
    /\ mu = 0 =>
        /\ Length(rb) = Len(pending)
        /\ Free(rb) = Capacity(rb) - Len(pending)
        /\ Length(rb) + Free(rb) = Capacity(rb)
    /\ \A t \in Threads :
        /\ Done(t, "Length") => n[t] = Len(pending)
        /\ Done(t, "Free") => n[t] = rb.size - Len(pending)

\* Length() returns 2 for an unread region that wraps past the end of storage
C5_Witness ==
    \E t \in Threads :
        /\ Done(t, "Length")
        /\ n[t] = 2
        /\ rb.w < rb.r

\* ---- C6 ----
InFullEmpty(k) ==
    /\ Quiet
    /\ rb.size = 2
    /\ Len(hist) = k
    /\ \E s \in FullEmptyScenarios : IsPrefix(Shape(hist), s)

\* C6: whenever no call is inside its critical section, IsFull() holds exactly when
\* capacity bytes are unread, IsEmpty() exactly when none is, never both, and equal
\* cursors mean 0 bytes (flag clear) or capacity bytes (flag set). On a buffer of
\* capacity 2: after a Write of 2 bytes IsFull(); after reading 1 byte not IsFull()
\* and Length() = 1; after reading 1 more byte IsEmpty().
C6_FullEmpty ==
    /\ mu = 0 =>
        /\ IsFull(rb) <=> Len(pending) = rb.size
        /\ IsEmpty(rb) <=> Len(pending) = 0
        /\ ~(IsFull(rb) /\ IsEmpty(rb))
        /\ rb.r = rb.w =>
            \/ Len(pending) = 0 /\ ~rb.isFull
            \/ Len(pending) = rb.size /\ rb.isFull
    /\ InFullEmpty(1) => IsFull(rb)
    /\ InFullEmpty(2) => ~IsFull(rb) /\ Length(rb) = 1
    /\ InFullEmpty(3) => IsEmpty(rb)

\* the scenario has run to its end
C6_Witness == InFullEmpty(3) /\ hist[3].op = "ReadByte" /\ hist[2].op = "Read"

InWrap(k) ==
    /\ Quiet
    /\ rb.size = 4
    /\ Len(hist) = k
    /\ IsPrefix(Shape(hist), WrapScenario)

\* C8 as stated: capacity 4, after writing 3 bytes and reading 2 the free space is 2
\* and 2 bytes remain; a following Write of 3 bytes returns ErrTooManyDataToWrite
\* with 2 bytes accepted and Bytes() is the 2 retained bytes followed by the 2 new ones.
C8_AsStated ==
    /\ InWrap(2) => Free(rb) = 2 /\ Length(rb) = 2
    /\ InWrap(3) =>
        /\ hist[3].err = ErrTooManyDataToWrite
        /\ hist[3].n = 2
        /\ Bytes(rb) = SubSeq(hist[1].data, 2, 3) \o Take(hist[3].data, 2)

\* C8, amended: capacity 4, after writing 3 bytes and reading 2 the free space is 3
\* and 1 byte remains; a following Write of 3 bytes accepts all 3 with no error, the
\* buffer is full and Bytes() is the 1 retained byte followed by the 3 new ones.
C8_WrapAround ==
    /\ InWrap(2) =>
        /\ hist[1].n = 3 /\ hist[1].err = nil
        /\ hist[2].n = 2 /\ hist[2].err = nil
        /\ hist[2].data = Take(hist[1].data, 2)
        /\ Free(rb) = 3
        /\ Length(rb) = 1
    /\ InWrap(3) =>
        /\ hist[3].err = nil
        /\ hist[3].n = 3
        /\ IsFull(rb)
        /\ Bytes(rb) = <<hist[1].data[3]>> \o hist[3].data

\* the scenario has run to its end, the retained byte differing from the next one
C8_Witness == InWrap(3) /\ hist[1].data[3] # hist[3].data[1] /\ rb.w = 2

\* ---- C9 ----
\* C9: a Write of exactly Free() bytes accepts all of them, returns no error and
\* leaves IsFull() true.
C9_WriteFree ==
    \A t \in Threads :
        (Done(t, "Write") /\ plen[t] = Free(pre[t].rb)) =>
            /\ n[t] = plen[t]
            /\ err[t] = nil
            /\ pending = pre[t].pending \o pre[t].p
            /\ IsFull(rb)

\* a Write of Free() = 2 bytes that wraps past the end of storage
C9_Witness ==
    \E t \in Threads :
        /\ Done(t, "Write")
        /\ plen[t] = 2
        /\ Free(pre[t].rb) = 2
        /\ pre[t].rb.w = rb.size - 1

\* ---- C10 ----
\* C10: Bytes() returns the unread bytes in the order they were accepted, Length()
\* of them, also when they wrap past the end of storage or fill it; it leaves the
\* struct unchanged, equals what a Read with a destination of Length() bytes would
\* return next, and is empty for an empty buffer.
C10_Bytes ==
    /\ mu = 0 =>
        /\ Bytes(rb) = pending
        /\ Len(Bytes(rb)) = Length(rb)
        /\ ReadOut(rb, Length(rb)) = Bytes(rb)
        /\ IsEmpty(rb) => Bytes(rb) = <<>>
    /\ \A t \in Threads :
        Done(t, "Bytes") =>
            /\ out[t] = pending
            /\ err[t] = nil
            /\ rb = pre[t].rb

\* Bytes() of a full buffer whose cursors are not at 0, holding different bytes
C10_Witness ==
    \E t \in Threads :
        /\ Done(t, "Bytes")
        /\ rb.isFull
        /\ rb.r > 0
        /\ Len(out[t]) >= 2
        /\ out[t][1] # out[t][Len(out[t])]

\* ---- C11 ----
\* C11: Reset(), whatever the cursors and the flag were, leaves read cursor = write
\* cursor = 0 and is_full = false and does not change the capacity; the buffer then
\* reports what New of the same capacity reports: Length() = 0, Free() = Capacity(),
\* IsEmpty(), not IsFull().
C11_Reset ==
    \A t \in Threads :
        Done(t, "Reset") =>
            /\ rb.r = 0
            /\ rb.w = 0
            /\ rb.isFull = FALSE
            /\ rb.size = pre[t].rb.size
            /\ Length(rb) = 0
            /\ Free(rb) = Capacity(rb)
            /\ IsEmpty(rb)
            /\ ~IsFull(rb)
            /\ Length(rb) = Length(New(rb.size))
            /\ Free(rb) = Free(New(rb.size))
            /\ IsEmpty(rb) = IsEmpty(New(rb.size))
            /\ IsFull(rb) = IsFull(New(rb.size))
            /\ Capacity(rb) = Capacity(New(rb.size))
            /\ pending = <<>>

\* Reset of a full buffer whose cursors were not at 0
C11_Witness ==
    \E t \in Threads :
        /\ Done(t, "Reset")
        /\ pre[t].rb.isFull
        /\ pre[t].rb.r > 0

\* ---- C13 ----
Queries == {"Length", "Free", "Capacity", "IsFull", "IsEmpty", "Bytes"}

\* C13: Length, Free, Capacity, IsFull, IsEmpty and Bytes leave the read cursor, the
\* write cursor, is_full, the capacity and the storage as they found them: from the
\* moment the query runs to its return the struct (and so the unread bytes and the
\* result of every later call) is the one the query started on.
C13_QueriesPure ==
    \A t \in Threads :
        (op[t] \in Queries /\ pc[t] \in {op[t], "unlock", "ret0"}) =>
            /\ rb = pre[t].rb
            /\ pending = pre[t].pending
            /\ Bytes(rb) = Bytes(pre[t].rb)
            /\ Length(rb) = Length(pre[t].rb)

\* Bytes() has returned two bytes that wrap past the end of storage
C13_Witness ==
    \E t \in Threads :
        /\ Done(t, "Bytes")
        /\ Len(out[t]) = 2
        /\ rb.w < rb.r

\* ---- C18 ----
\* what the caller can tell apart: the error, the bytes handed over and the struct left
Same(x, y) == x.err = y.err /\ x.out = y.out /\ x.rb = y.rb

\* C18: ReadByte() behaves as Read with a destination of length 1. Every finished
\* ReadByte has the error, the byte and the resulting read cursor, write cursor,
\* is_full and storage that Read of one byte gives on the struct it started on, and
\* every finished Read of one byte those that ReadByte gives; on every struct the
\* buffer reaches between calls the two agree, ErrIsEmpty in the same states and
\* otherwise the oldest unread byte.
C18_ReadByteAsRead ==
    /\ \A t \in Threads :
        /\ Done(t, "ReadByte") =>
            /\ Same([rb |-> rb, err |-> err[t], out |-> out[t]], SeqRead(pre[t].rb, 1))
            /\ err[t] = nil => out[t] = Take(pre[t].pending, 1)
        /\ (Done(t, "Read") /\ plen[t] = 1) =>
            /\ Same([rb |-> rb, err |-> err[t], out |-> out[t]], SeqReadByte(pre[t].rb))
            /\ err[t] = nil <=> n[t] = 1
    /\ mu = 0 => Same(SeqReadByte(rb), SeqRead(rb, 1))

\* ReadByte() takes the byte in the last cell of a full buffer: the cursor wraps to 0
C18_Witness ==
    \E t \in Threads :
        /\ Done(t, "ReadByte")
        /\ err[t] = nil
        /\ pre[t].rb.isFull
        /\ pre[t].rb.r = rb.size - 1
        /\ rb.size > 1

\* ---- C19 ----
\* C19: WriteByte(c) behaves as Write of the one-byte source [c]. Every finished
\* WriteByte has the error and the resulting read cursor, write cursor, is_full and
\* storage that Write([c]) gives on the struct it started on, and every finished
\* Write of one byte those that WriteByte gives: ErrIsFull in the same states,
\* otherwise no error, the write cursor advanced by one modulo the capacity and
\* is_full set exactly when the cursors then coincide.
C19_WriteByteAsWrite ==
    /\ \A t \in Threads :
        /\ Done(t, "WriteByte") =>
            /\ Same([rb |-> rb, err |-> err[t], out |-> <<>>], SeqWrite(pre[t].rb, pre[t].p))
            /\ err[t] = ErrIsFull <=> pre[t].rb.isFull
            /\ err[t] = nil =>
                /\ rb.w = (pre[t].rb.w + 1) % rb.size
                /\ rb.r = pre[t].rb.r
                /\ rb.isFull <=> rb.w = rb.r
                /\ pending = pre[t].pending \o pre[t].p
        /\ (Done(t, "Write") /\ plen[t] = 1) =>
            /\ Same([rb |-> rb, err |-> err[t], out |-> <<>>],
                    SeqWriteByte(pre[t].rb, pre[t].p[1]))
            /\ err[t] = nil <=> n[t] = 1
    /\ mu = 0 => \A c \in ByteVals : Same(SeqWriteByte(rb, c), SeqWrite(rb, <<c>>))

\* WriteByte stores into the last free cell, at the end of storage: the cursor wraps
\* and the buffer becomes full
C19_Witness ==
    \E t \in Threads :
        /\ Done(t, "WriteByte")
        /\ err[t] = nil
        /\ pre[t].rb.w = rb.size - 1
        /\ rb.size > 1
        /\ rb.isFull

\* ---- C20 ----
\* C20: a Read with a destination of length 0 and a Write with a source of length 0
\* return (0, nil), also on an empty and on a full buffer, and leave the read cursor,
\* the write cursor, is_full and the storage unchanged.
C20_ZeroLength ==
    \A t \in Threads :
        (op[t] \in {"Read", "Write"} /\ plen[t] = 0) =>
            /\ n[t] = 0
            /\ err[t] = nil
            /\ out[t] = <<>>
            /\ Done(t, op[t]) =>
                /\ rb = pre[t].rb
                /\ pending = pre[t].pending
                /\ Same([rb |-> rb, err |-> err[t], out |-> out[t]],
                        IF op[t] = "Read" THEN SeqRead(pre[t].rb, 0)
                        ELSE SeqWrite(pre[t].rb, <<>>))

\* a Write of no bytes returning on a full buffer whose cursors are not at 0
C20_Witness ==
    \E t \in Threads :
        /\ Done(t, "Write")
        /\ plen[t] = 0
        /\ rb.isFull
        /\ rb.w > 0

\* ---- C12 ----
\* C12 as stated: New rejects every capacity <= 0, so no buffer has capacity <= 0
\* and no Read, ReadByte, Write or WriteByte ever runs its cursor arithmetic or
\* indexes the storage with capacity 0 (where it panics).
C12_AsStated ==
    /\ rb.size > 0
    /\ \A t \in Threads : pc[t] # "panic"

\* on the buffer New(0) returned, a Write has set is_full and a following Read has
\* panicked dividing by the capacity, the lock still held
C12_ZeroCapacityPanic ==
    \E t \in Threads :
        /\ rb.size = 0
        /\ rb.isFull
        /\ pc[t] = "panic"
        /\ op[t] = "Read"
        /\ mu = t

\* ---- C14 ----
\* the methods that call r.mu.Lock()
Locking ==
    {"Read", "Write", "ReadByte", "WriteByte", "Bytes", "Length", "Free", "IsFull", "IsEmpty", "Reset"}

\* thread t is between its Lock and its Unlock
InCritical(t) == pc[t] \notin {"idle", "lock", "ret", "ret0", "panic"}

\* at most one call is inside its critical section, that call holds the lock, a call
\* that has unlocked and is returning does not, and the lock is free when no call is
\* inside its critical section
Exclusion ==
    /\ \A t \in Threads : InCritical(t) => mu = t
    /\ \A t \in Threads : pc[t] \in {"idle", "lock", "ret", "ret0"} => mu # t
    /\ \A t, u \in Threads : (InCritical(t) /\ InCritical(u)) => t = u
    /\ (\A t \in Threads : ~InCritical(t)) => mu = 0
    /\ \A t \in Threads :
        (pc[t] = "unlock" /\ err[t] \in {ErrIsEmpty, ErrIsFull}) => mu = t

Consistent(s) ==
    /\ 0 <= s.r /\ s.r < s.size
    /\ 0 <= s.w /\ s.w < s.size
    /\ s.isFull => s.r = s.w
    /\ Len(s.buf) = s.size

\* the results of the finished call of thread t and the struct it leaves are those of
\* the whole method run alone on the struct found when the lock was taken
AsAlone(t) ==
    LET s == pre[t].rb
        got == Outcome(rb, n[t], err[t], out[t])
    IN  /\ op[t] = "Read" => got = SeqRead(s, plen[t])
        /\ op[t] = "Write" => got = SeqWrite(s, pre[t].p)
        /\ op[t] = "ReadByte" => got = SeqReadByte(s)
        /\ op[t] = "WriteByte" => got = SeqWriteByte(s, pre[t].p[1])
        /\ op[t] = "Reset" => got = SeqReset(s)
        /\ op[t] = "Length" => got = Outcome(s, Length(s), nil, <<>>)
        /\ op[t] = "Free" => got = Outcome(s, Free(s), nil, <<>>)
        /\ op[t] = "Bytes" => got = Outcome(s, 0, nil, Bytes(s))
        /\ op[t] = "IsFull" => rb = s /\ flag[t] = IsFull(s)
        /\ op[t] = "IsEmpty" => rb = s /\ flag[t] = IsEmpty(s)

\* C15: concurrent calls are linearizable in the order in which they take the lock.
\* The struct a call finds under the lock is never half-updated by another call (its
\* cursors are in range, is_full only with equal cursors, its unread bytes are the
\* accepted bytes not yet returned); the call's results and the struct it leaves at
\* its Unlock are those of the same call run alone on that struct; and only the
\* holder of the lock changes the struct, so the struct the next call finds is the
\* one the previous call left.
C15_Linearizable ==
    /\ [](\A t \in Threads :
            /\ InCritical(t) =>
                /\ Consistent(pre[t].rb)
                /\ Bytes(pre[t].rb) = pre[t].pending
            /\ pc[t] = "unlock" => AsAlone(t))
    /\ [][rb' # rb => (mu # 0 /\ mu' = mu /\ pc'[mu] # pc[mu])]_vars

\* thread 2's Read returns, across the end of storage, the two bytes of a buffer
\* that two earlier calls filled, while thread 1 waits for the lock with a Reset
C15_Witness ==
    /\ pc[2] = "unlock"
    /\ op[2] = "Read"
    /\ n[2] = 2
    /\ pre[2].rb.r + 2 > rb.size
    /\ pre[2].rb.isFull
    /\ pc[1] = "lock"
    /\ op[1] = "Reset"

\* ---- C16 ----
\* C16: with the callers interleaved in every way, whenever no thread holds the lock
\* the capacity is positive, 0 <= read cursor < capacity, 0 <= write cursor <
\* capacity, and is_full is set only when the cursors are equal.
C16_CursorsInRange ==
    mu = 0 =>
        /\ rb.size > 0
        /\ 0 <= rb.r /\ rb.r < rb.size
        /\ 0 <= rb.w /\ rb.w < rb.size
        /\ rb.isFull => rb.r = rb.w

\* the lock is free on a full buffer whose cursors a wrapped Write left away from 0,
\* one thread about to return and the other waiting to lock
C16_Witness ==
    /\ mu = 0
    /\ rb.isFull
    /\ rb.r > 0
    /\ pc[1] = "ret"
    /\ op[1] = "Write"
    /\ pc[2] = "lock"

====
